---- MODULE Spec2Model ----
(***************************************************************************)
(* Order placement, order status changes, catalog price edits and product  *)
(* reviews of the shop backend (api/models.py, api/serializers.py,         *)
(* api/views.py).                                                          *)
(*                                                                         *)
(* The sources open no transaction (no transaction.atomic, no              *)
(* select_for_update), so the database runs in Django's autocommit mode:   *)
(* every ORM statement (objects.get, objects.create, save) is one atomic   *)
(* step, and the requests of different clients interleave between the      *)
(* statements.  Model.save() writes every column of the row from the       *)
(* in-memory instance.                                                     *)
(***************************************************************************)
EXTENDS Integers, Sequences, FiniteSets, TLC

----------------------------------------------------------------------------
(* Bounds of the model *)

\* largest quantity one item of a request asks for
MaxQty == 2
\* stock of each product in the initial state
MaxStock == 2
\* largest number of items in one order request
MaxItems == 2

----------------------------------------------------------------------------
(* Program constants *)

\* SQL NULL / Python None in Product.discount_price (null=True)
Null == -1
\* Review.rating: MinValueValidator(1), MaxValueValidator(5)
MinRating == 1
MaxRating == 5

\* Order.STATUS_CHOICES (the keys)
STATUS_CHOICES ==
    {"pending", "confirmed", "processing", "shipped", "delivered", "cancelled"}

\* default of Order.status and of Order.payment_status
DefaultStatus == "pending"
DefaultPaymentStatus == "pending"

----------------------------------------------------------------------------
(* The finite universe of the model *)

\* authenticated users; is_staff is the flag of django.contrib.auth User
Users == {"alice", "admin"}
is_staff(u) == u = "admin"
\* validated_data carries no "user" key unless the caller passes one to save()
NoUser == "None"

\* primary keys of the Product rows
ProductIds == {1, 2}
\* a primary key of no Product row
MissingIds == {3}

\* the "status" key of a request body is absent
NoStatus == "None"
\* a token outside STATUS_CHOICES
BadToken == "bogus"

\* clients posting orders at the same time
Requests == {"r1", "r2"}
\* in-flight update / partial_update / update_status requests
Updaters == {"u1"}
\* in-flight catalog edits
Editors == {"e1"}
\* in-flight review requests
Reviewers == {"v1", "v2"}

\* catalog prices
Prices == {3, 4}

VARIABLES
    products,     \* Product table: pk -> [stock, price, discount_price]
    orders,       \* Order table: sequence of rows, the pk is the index
    orderitems,   \* OrderItem table: order pk -> sequence of its item rows
    req,          \* the POST /orders/ requests (OrderSerializer.create)
    upd,          \* the requests that rewrite an existing order
    edit,         \* the requests that rewrite a product
    reviews,      \* Review table: set of rows
    rev           \* the POST /products/{pk}/review/ requests

vars == <<products, orders, orderitems, req, upd, edit, reviews, rev>>

----------------------------------------------------------------------------
(* Rows and in-memory instances *)

\* a Product instance that is not loaded
NoProduct == [id |-> 0, stock |-> 0, price |-> 0, discount_price |-> Null]

\* an Order instance that is not loaded
NoOrder ==
    [user |-> NoUser, status |-> DefaultStatus,
     payment_status |-> DefaultPaymentStatus,
     total_amount |-> 0, discount_amount |-> 0, shipping_cost |-> 0]

IdleRequest ==
    [pc |-> "idle", user |-> NoUser, status |-> NoStatus, items |-> << >>,
     order |-> 0, i |-> 0, total_amount |-> 0, product |-> NoProduct,
     error |-> "none"]

IdleUpdater ==
    [pc |-> "idle", op |-> "none", actor |-> NoUser, pk |-> 0,
     status |-> NoStatus, code |-> 0, instance |-> NoOrder]

IdleEditor ==
    [pc |-> "idle", price |-> 0, instance |-> NoProduct]

IdleReviewer ==
    [pc |-> "idle", user |-> NoUser, product |-> 0, rating |-> 0, code |-> 0]

\* Product 1 is on sale (discount_price set), product 2 is not.
Init ==
    /\ products = [p \in ProductIds |->
                     [stock |-> MaxStock, price |-> 3,
                      discount_price |-> IF p = 1 THEN 2 ELSE Null]]
    /\ orders = << >>
    /\ orderitems = << >>
    /\ req = [r \in Requests |-> IdleRequest]
    /\ upd = [u \in Updaters |-> IdleUpdater]
    /\ edit = [e \in Editors |-> IdleEditor]
    /\ reviews = {}
    /\ rev = [v \in Reviewers |-> IdleReviewer]

----------------------------------------------------------------------------
(* OrderSerializer.create, serializers.py 94-122 *)

\* The Order row Order.objects.create(**validated_data) inserts (line 96).
\* "status" is a writable field of OrderSerializer.Meta and is taken from the
\* request when present; payment_status, discount_amount and shipping_cost
\* are no serializer fields and take the model defaults.  total_amount is
\* read-only in the serializer and has no default: the value at insert is the
\* caller's, written 0 here.
NewOrderRow(user, status) ==
    [user |-> user,
     status |-> IF status = NoStatus THEN DefaultStatus ELSE status,
     payment_status |-> DefaultPaymentStatus,
     total_amount |-> 0,
     discount_amount |-> 0,
     shipping_cost |-> 0]

\* a stock check that only asks whether the product is in stock at all
StockInsufficientInStockOnly(stock, quantity) == stock < 1

\* line 101: if product.stock < item_data['quantity']
StockInsufficient(stock, quantity) == stock < quantity

\* line 105: price = product.price
UnitPrice(product) == product.price

\* line 107: total_amount += price * quantity
AddLine(total_amount, price, quantity) == total_amount + price * quantity

\* line 117: product.stock -= quantity
DecrementedStock(stock, quantity) == stock - quantity

\* The exception leaves create and the request fails.  Nothing is undone: no
\* transaction is open.
Raise(r, error) ==
    req' = [req EXCEPT ![r].pc = "failed", ![r].error = error,
                       ![r].items = << >>, ![r].user = NoUser,
                       ![r].product = NoProduct]

\* lines 95-96: items_data = validated_data.pop('items');
\*              order = Order.objects.create(**validated_data)
\* Order.user is a NOT NULL column and "user" is read-only in the serializer:
\* validated_data has a "user" key only when the caller of save() passes one
\* (OrderViewSet defines no perform_create).  Without it the INSERT raises
\* IntegrityError and no row is written.
create_InsertOrder(r, user, status, items) ==
    /\ req[r].pc = "idle"
    /\ IF user = NoUser
       THEN /\ Raise(r, "IntegrityError")
            /\ UNCHANGED <<orders, orderitems>>
       ELSE /\ orders' = Append(orders, NewOrderRow(user, status))
            /\ orderitems' = Append(orderitems, << >>)
            /\ req' = [req EXCEPT ![r] =
                         [pc |-> "loop", user |-> user, status |-> status,
                          items |-> items, order |-> Len(orders) + 1,
                          i |-> 1, total_amount |-> 0,
                          product |-> NoProduct, error |-> "none"]]
    /\ UNCHANGED <<products, upd, edit, reviews, rev>>

\* lines 99-103: the next item_data; product = Product.objects.get(pk=...),
\* which raises Product.DoesNotExist; the stock check
create_GetProduct(r) ==
    /\ req[r].pc = "loop"
    /\ req[r].i <= Len(req[r].items)
    /\ LET item_data == req[r].items[req[r].i]
           pid == item_data.product_id
       IN  IF pid \notin ProductIds
           THEN Raise(r, "DoesNotExist")
           ELSE IF StockInsufficient(products[pid].stock, item_data.quantity)
           THEN Raise(r, "ValidationError")
           ELSE req' = [req EXCEPT ![r].pc = "item",
                          ![r].product =
                             [id |-> pid,
                              stock |-> products[pid].stock,
                              price |-> products[pid].price,
                              discount_price |-> products[pid].discount_price]]
    /\ UNCHANGED <<products, orders, orderitems, upd, edit, reviews, rev>>

\* lines 105-114: the price, the running total, OrderItem.objects.create
create_InsertItem(r) ==
    /\ req[r].pc = "item"
    /\ LET quantity == req[r].items[req[r].i].quantity
           price == UnitPrice(req[r].product)
       IN  /\ orderitems' =
                [orderitems EXCEPT ![req[r].order] =
                   Append(@, [product |-> req[r].product.id,
                              quantity |-> quantity, price |-> price])]
           /\ req' = [req EXCEPT ![r].pc = "stock",
                        ![r].total_amount = AddLine(@, price, quantity)]
    /\ UNCHANGED <<products, orders, upd, edit, reviews, rev>>

\* lines 117-118: product.stock -= quantity; product.save()
\* save() writes the whole row from the instance loaded at line 100.
create_SaveProduct(r) ==
    /\ req[r].pc = "stock"
    /\ LET quantity == req[r].items[req[r].i].quantity
           product == req[r].product
       IN  products' =
             [products EXCEPT ![product.id] =
                [stock |-> DecrementedStock(product.stock, quantity),
                 price |-> product.price,
                 discount_price |-> product.discount_price]]
    /\ req' = [req EXCEPT ![r].pc = "loop", ![r].i = @ + 1,
                          ![r].product = NoProduct]
    /\ UNCHANGED <<orders, orderitems, upd, edit, reviews, rev>>

\* lines 120-122: order.total_amount = total_amount; order.save(); return
\* save() writes the whole row from the instance created at line 96.
create_SaveOrder(r) ==
    /\ req[r].pc = "loop"
    /\ req[r].i > Len(req[r].items)
    /\ orders' = [orders EXCEPT ![req[r].order] =
                    [NewOrderRow(req[r].user, req[r].status)
                       EXCEPT !.total_amount = req[r].total_amount]]
    /\ req' = [req EXCEPT ![r].pc = "done", ![r].items = << >>,
                          ![r].user = NoUser]
    /\ UNCHANGED <<products, orderitems, upd, edit, reviews, rev>>

----------------------------------------------------------------------------
(* OrderViewSet, views.py 88-137 *)

\* lines 95-98, get_queryset: staff see every order, others their own;
\* get_object answers 404 for a pk outside the queryset
Visible(actor, pk) ==
    /\ pk \in DOMAIN orders
    /\ is_staff(actor) \/ orders[pk].user = actor

\* a status check that only asks whether the request carries a status
InvalidStatusPresenceOnly(new_status) == new_status = NoStatus

\* line 131: new_status not in dict(Order.STATUS_CHOICES)
InvalidStatus(new_status) == new_status \notin STATUS_CHOICES

\* a permission check that only asks for an authenticated user
NotPrivilegedAuthenticatedOnly(actor) == actor \notin Users

\* line 126: if not request.user.is_staff
NotPrivileged(actor) == ~ is_staff(actor)

\* models.py 122, choices=STATUS_CHOICES: the serializer's choice field
\* refuses any other value of "status"
NotAChoice(status) == status \notin STATUS_CHOICES

\* The response of a request that ends before it loads the order.
Respond(u, op, code) ==
    upd' = [upd EXCEPT ![u] = [IdleUpdater EXCEPT !.op = op, !.code = code]]

\* The request has loaded the order row and goes on to save it.
Load(u, op, actor, pk, status) ==
    upd' = [upd EXCEPT ![u] =
              [pc |-> "save", op |-> op, actor |-> actor, pk |-> pk,
               status |-> status, code |-> 0, instance |-> orders[pk]]]

\* lines 125-132: the staff check, get_object, request.data.get('status')
\* (None when the key is missing) and the membership test
update_status(u, actor, pk, new_status) ==
    /\ upd[u].pc = "idle"
    /\ IF NotPrivileged(actor)
       THEN Respond(u, "update_status", 403)
       ELSE IF ~ Visible(actor, pk)
       THEN Respond(u, "update_status", 404)
       ELSE IF InvalidStatus(new_status)
       THEN Respond(u, "update_status", 400)
       ELSE Load(u, "update_status", actor, pk, new_status)
    /\ UNCHANGED <<products, orders, orderitems, req, edit, reviews, rev>>

\* PUT (partial = FALSE) and PATCH (partial = TRUE) on /orders/{pk}/, which
\* the ModelViewSet serves with OrderSerializer to any authenticated user
\* (views.py 88-91, serializers.py 83-92).  "status" is a writable choice
\* field; "items" is a required nested serializer and OrderSerializer has no
\* update(), so a body that carries items is refused before anything is
\* assigned.
update(u, actor, pk, partial, status, has_items) ==
    /\ upd[u].pc = "idle"
    /\ LET op == IF partial THEN "partial_update" ELSE "update"
       IN  IF ~ Visible(actor, pk)
           THEN Respond(u, op, 404)
           ELSE IF status # NoStatus /\ NotAChoice(status)
           THEN Respond(u, op, 400)
           ELSE IF ~ partial /\ ~ has_items
           THEN Respond(u, op, 400)
           ELSE IF has_items
           THEN Respond(u, op, 500)
           ELSE Load(u, op, actor, pk, status)
    /\ UNCHANGED <<products, orders, orderitems, req, edit, reviews, rev>>

\* lines 134-137 of update_status, and the save of partial_update:
\* order.status = new_status; order.save() writes the whole row from the
\* instance get_object loaded.
SaveOrder(u) ==
    /\ upd[u].pc = "save"
    /\ orders' = [orders EXCEPT ![upd[u].pk] =
                    [upd[u].instance EXCEPT !.status =
                        IF upd[u].status = NoStatus THEN @ ELSE upd[u].status]]
    /\ Respond(u, upd[u].op, 200)
    /\ UNCHANGED <<products, orderitems, req, edit, reviews, rev>>

----------------------------------------------------------------------------
(* ProductViewSet, views.py 63-78 *)

\* views.py 14-18, IsAdminUserOrReadOnly for an unsafe method
MayWrite(actor) == is_staff(actor)

\* PATCH /products/{pk}/ with a new price: the permission, get_object
EditPrice(e, actor, pid, price) ==
    /\ edit[e].pc = "idle"
    /\ MayWrite(actor)
    /\ pid \in ProductIds
    /\ edit' = [edit EXCEPT ![e] =
                  [pc |-> "save", price |-> price,
                   instance |-> [id |-> pid,
                                 stock |-> products[pid].stock,
                                 price |-> products[pid].price,
                                 discount_price |->
                                     products[pid].discount_price]]]
    /\ UNCHANGED <<products, orders, orderitems, req, upd, reviews, rev>>

\* the save of the PATCH: the whole row from the instance get_object loaded
SaveProduct(e) ==
    /\ edit[e].pc = "save"
    /\ products' = [products EXCEPT ![edit[e].instance.id] =
                      [stock |-> edit[e].instance.stock,
                       price |-> edit[e].price,
                       discount_price |-> edit[e].instance.discount_price]]
    /\ edit' = [edit EXCEPT ![e] = IdleEditor]
    /\ UNCHANGED <<orders, orderitems, req, upd, reviews, rev>>

\* a Review table without the unique index
UniqueViolationNoIndex(table, product, user) == FALSE

\* models.py 84-85, unique_together = ('product', 'user'): the unique index
\* refuses the INSERT of a second row of the pair
UniqueViolation(table, product, user) ==
    \E row \in table : row.product = product /\ row.user = user

\* models.py 79: the validators of Review.rating
ValidRating(rating) == MinRating <= rating /\ rating <= MaxRating

\* Response of a review request that ends before the INSERT.
Reject(v, code) ==
    rev' = [rev EXCEPT ![v] = [IdleReviewer EXCEPT !.code = code]]

\* views.py 71-75: the permission of the viewset (POST is no safe method),
\* get_object, ReviewSerializer(data=request.data).is_valid().  "product" is
\* a required field of the body; "user" is read-only, so the serializer has
\* no uniqueness validator for the pair.
review(v, actor, pk, body_product, rating) ==
    /\ rev[v].pc = "idle"
    /\ IF ~ MayWrite(actor)
       THEN Reject(v, 403)
       ELSE IF pk \notin ProductIds
       THEN Reject(v, 404)
       ELSE IF body_product \notin ProductIds \/ ~ ValidRating(rating)
       THEN Reject(v, 400)
       ELSE rev' = [rev EXCEPT ![v] =
                      [pc |-> "save", user |-> actor, product |-> pk,
                       rating |-> rating, code |-> 0]]
    /\ UNCHANGED <<products, orders, orderitems, req, upd, edit, reviews>>

\* views.py 76-77: serializer.save(user=request.user, product=product), the
\* INSERT; the IntegrityError of the unique index is not caught
review_Save(v) ==
    /\ rev[v].pc = "save"
    /\ IF UniqueViolation(reviews, rev[v].product, rev[v].user)
       THEN /\ Reject(v, 500)
            /\ UNCHANGED reviews
       ELSE /\ reviews' = reviews \cup
                 {[product |-> rev[v].product, user |-> rev[v].user,
                   rating |-> rev[v].rating]}
            /\ rev' = [rev EXCEPT ![v] = [IdleReviewer EXCEPT !.code = 201]]
    /\ UNCHANGED <<products, orders, orderitems, req, upd, edit>>

----------------------------------------------------------------------------
(* Specifications *)

\* one item of a request body
Item(pid, quantity) == [product_id |-> pid, quantity |-> quantity]

\* the request bodies over a set of items, up to n items long
ItemsData(items, n) == UNION { [1..k -> items] : k \in 1..n }

\* Concurrent order placement on one product: every quantity of product 1,
\* and a product that does not exist.
PlaceItems ==
    ItemsData({Item(1, q) : q \in 1..MaxQty}
                 \cup {Item(pid, 1) : pid \in MissingIds}, MaxItems)

PlaceNext ==
    \/ \E r \in Requests, items \in PlaceItems :
            create_InsertOrder(r, "alice", NoStatus, items)
    \/ \E r \in Requests : create_GetProduct(r)
    \/ \E r \in Requests : create_InsertItem(r)
    \/ \E r \in Requests : create_SaveProduct(r)
    \/ \E r \in Requests : create_SaveOrder(r)

SpecPlace == Init /\ [][PlaceNext]_vars

\* Order placement and catalog price edits.
PriceItems == ItemsData({Item(pid, 1) : pid \in ProductIds}, MaxItems)

PriceNext ==
    \/ \E items \in PriceItems :
            create_InsertOrder("r1", "alice", NoStatus, items)
    \/ create_GetProduct("r1")
    \/ create_InsertItem("r1")
    \/ create_SaveProduct("r1")
    \/ create_SaveOrder("r1")
    \/ \E e \in Editors, actor \in Users, pid \in ProductIds,
          price \in Prices : EditPrice(e, actor, pid, price)
    \/ \E e \in Editors : SaveProduct(e)

SpecPrice == Init /\ [][PriceNext]_vars

\* One order, from its placement through its status changes.
StatusInputs == {NoStatus, "shipped"}
Tokens == STATUS_CHOICES \cup {BadToken, NoStatus}
StatusItems == ItemsData({Item(2, 1), Item(2, MaxQty)}, MaxItems)
OrderPks == 1..2

StatusNext ==
    \/ \E user \in Users \cup {NoUser}, status \in StatusInputs,
          items \in StatusItems :
            create_InsertOrder("r1", user, status, items)
    \/ create_GetProduct("r1")
    \/ create_InsertItem("r1")
    \/ create_SaveProduct("r1")
    \/ create_SaveOrder("r1")
    \/ \E u \in Updaters, actor \in Users, pk \in OrderPks, t \in Tokens :
            update_status(u, actor, pk, t)
    \/ \E u \in Updaters, actor \in Users, pk \in OrderPks,
          partial \in BOOLEAN, t \in Tokens, has_items \in BOOLEAN :
            update(u, actor, pk, partial, t, has_items)
    \/ \E u \in Updaters : SaveOrder(u)

SpecStatus == Init /\ [][StatusNext]_vars

\* Concurrent review submissions.
Ratings == (MinRating - 1) .. (MaxRating + 1)

ReviewNext ==
    \/ \E v \in Reviewers, actor \in Users,
          pk \in ProductIds \cup MissingIds,
          body_product \in ProductIds \cup MissingIds, rating \in Ratings :
            review(v, actor, pk, body_product, rating)
    \/ \E v \in Reviewers : review_Save(v)

SpecReview == Init /\ [][ReviewNext]_vars

----------------------------------------------------------------------------
(* Quantities the properties speak of *)

\* sum of price * quantity over the item rows of one order
RECURSIVE ItemsTotal(_)
ItemsTotal(rows) ==
    IF rows = << >> THEN 0
    ELSE rows[1].price * rows[1].quantity + ItemsTotal(Tail(rows))

\* sum of the quantities of product p over the item rows of one order
RECURSIVE QuantityIn(_, _)
QuantityIn(rows, p) ==
    IF rows = << >> THEN 0
    ELSE (IF rows[1].product = p THEN rows[1].quantity ELSE 0)
            + QuantityIn(Tail(rows), p)

\* sum of the quantities of product p over the item rows of orders 1..n
RECURSIVE SoldUpTo(_, _)
SoldUpTo(n, p) ==
    IF n = 0 THEN 0 ELSE QuantityIn(orderitems[n], p) + SoldUpTo(n - 1, p)

\* the quantity of product p in all persisted OrderItems
Sold(p) == SoldUpTo(Len(orderitems), p)

\* the effective unit price of the spec: discount_price when set, else price
EffectivePrice(product) ==
    IF product.discount_price # Null THEN product.discount_price
    ELSE product.price

\* the request failed on one of its items
FailedOnItem(r) ==
    /\ req[r].pc = "failed"
    /\ req[r].error \in {"DoesNotExist", "ValidationError"}

\* the lifecycle of the spec: one step forward, or a cancellation before
\* shipping
LifecycleSteps ==
    {<<"pending", "confirmed">>, <<"confirmed", "processing">>,
     <<"processing", "shipped">>, <<"shipped", "delivered">>,
     <<"pending", "cancelled">>, <<"confirmed", "cancelled">>,
     <<"processing", "cancelled">>}

\* the status of the existing order pk differs after the step
StatusChanged(pk) == orders'[pk].status # orders[pk].status

----------------------------------------------------------------------------
(* Properties *)

C3_StockNonNegative ==
    \A p \in ProductIds : products[p].stock >= 0

\* C3 witness: concurrent requests have together been given more units of a
\* product than it had, and its stock stands at 0.
C3_Witness ==
    \E p \in ProductIds : Sold(p) > MaxStock /\ products[p].stock = 0

C6_TransitionGuards ==
    [][ /\ \A u \in Updaters, actor \in Users, pk \in DOMAIN orders,
             t \in STATUS_CHOICES \cup {BadToken, NoStatus} :
              update_status(u, actor, pk, t) =>
                  /\ orders' = orders
                  /\ ~ is_staff(actor) =>
                        upd'[u].pc = "idle" /\ upd'[u].code = 403
                  /\ (is_staff(actor) /\ t \notin STATUS_CHOICES) =>
                        upd'[u].pc = "idle" /\ upd'[u].code = 400
        /\ \A u \in Updaters :
              (upd[u].pc = "save" /\ upd[u].op = "update_status"
                 /\ upd'[u].pc = "idle") =>
                  /\ is_staff(upd[u].actor)
                  /\ upd[u].status \in STATUS_CHOICES
                  /\ orders'[upd[u].pk].status = upd[u].status ]_vars

\* C6 witness: an order that a transition has moved to delivered, and an
\* update_status request just refused with 400.
C6_Witness ==
    \E u \in Updaters :
        /\ upd[u].op = "update_status" /\ upd[u].code = 400
        /\ \E pk \in DOMAIN orders : orders[pk].status = "delivered"

\* C7: the status of an existing order changes only in the save of an
\* update_status request of a privileged actor.
C7_StatusOnlyByTransition ==
    [][ \A pk \in DOMAIN orders :
            StatusChanged(pk) =>
                \E u \in Updaters :
                    /\ upd[u].pc = "save" /\ upd'[u].pc = "idle"
                    /\ upd[u].op = "update_status"
                    /\ upd[u].pk = pk
                    /\ is_staff(upd[u].actor) ]_vars

\* C8 as stated: every status change of an order is a step of the lifecycle
\* (one step forward, or a cancellation from pending, confirmed or
\* processing).
C8_Lifecycle ==
    [][ \A pk \in DOMAIN orders :
            StatusChanged(pk) =>
                <<orders[pk].status, orders'[pk].status>> \in LifecycleSteps
      ]_vars

\* C8 as amended: every status change of an order sets the status to one of
\* the six enumerated values; no order among them is enforced.
C8_StatusStaysAChoice ==
    [][ \A pk \in DOMAIN orders :
            StatusChanged(pk) => orders'[pk].status \in STATUS_CHOICES
      ]_vars

\* C8 witness: an order placed as shipped that a later change has moved back
\* to pending.
C8_Witness ==
    \E r \in Requests :
        /\ req[r].pc = "done" /\ req[r].status = "shipped"
        /\ orders[req[r].order].status = "pending"

C10_OneReviewPerPair ==
    [][ /\ \A a \in reviews', b \in reviews' :
              (a.product = b.product /\ a.user = b.user) => a = b
        /\ \A v \in Reviewers :
              (rev[v].pc = "save" /\ rev'[v].pc = "idle"
                 /\ \E row \in reviews :
                       row.product = rev[v].product /\ row.user = rev[v].user)
              => (reviews' = reviews /\ rev'[v].code = 500) ]_vars

\* C10 witness: a review is stored and a second request for its pair, with
\* another rating, has just been refused.
C10_Witness ==
    \E v \in Reviewers, w \in Reviewers :
        /\ v # w
        /\ rev[v].code = 201 /\ rev[w].code = 500
        /\ Cardinality(reviews) = 1

====
